---- MODULE Spec2Model ----
(***************************************************************************)
(* get-recursive-hoc: composition of a declarative structure and a map of  *)
(* components into one higher order component (src/src/index.tsx).         *)
(*                                                                         *)
(* JavaScript strings are sequences of one-character strings, so that the  *)
(* derivation of the type-level key (charAt, toLowerCase, slice and the    *)
(* template literal) is computed and not assumed.  A props object is a     *)
(* function from keys (strings) to JavaScript values.                      *)
(***************************************************************************)
EXTENDS FiniteSets, Integers, Sequences, TLC

VARIABLES structure, components, status, args, HOC, props, output, remembered

vars == <<structure, components, status, args, HOC, props, output, remembered>>

(***************************************************************************)
(* Bounds of the model.                                                    *)
(***************************************************************************)
MaxNodes == 3
MaxEntries == 2

(***************************************************************************)
(* JavaScript values.                                                      *)
(***************************************************************************)
EmptyObject == [k \in {} |-> <<>>]

JSObject(o) == [kind |-> "object", obj |-> o, str |-> <<>>, arr |-> <<>>]
JSString(s) == [kind |-> "string", obj |-> EmptyObject, str |-> s, arr |-> <<>>]
JSNumber(s) == [kind |-> "number", obj |-> EmptyObject, str |-> s, arr |-> <<>>]
JSBoolean(s) == [kind |-> "boolean", obj |-> EmptyObject, str |-> s, arr |-> <<>>]
JSArray(a) == [kind |-> "array", obj |-> EmptyObject, str |-> <<>>, arr |-> a]
JSNull == [kind |-> "null", obj |-> EmptyObject, str |-> <<>>, arr |-> <<>>]
JSUndefined == [kind |-> "undefined", obj |-> EmptyObject, str |-> <<>>, arr |-> <<>>]

\* props[key]: the value of an own property, undefined when there is none.
Lookup(o, key) == IF key \in DOMAIN o THEN o[key] ELSE JSUndefined

\* String(i) for an array or string index.
Digits == <<"0", "1", "2", "3", "4", "5", "6", "7", "8", "9">>
IndexKey(i) == <<Digits[i]>>

\* { ...left, ...right }: the keys of right overwrite those of left.
Assign(left, right) ==
  [k \in DOMAIN left \cup DOMAIN right |->
     IF k \in DOMAIN right THEN right[k] ELSE left[k]]

\* The own enumerable properties that the object spread of a value copies:
\* the entries of an object, the indexed elements of an array, the indexed
\* characters of a string, nothing of a number, boolean, null or undefined.
OwnProperties(v) ==
  CASE v.kind = "object" -> v.obj
    [] v.kind = "string" ->
         [k \in {IndexKey(i) : i \in 1..Len(v.str)} |->
            JSString(<<v.str[CHOOSE i \in 1..Len(v.str) : IndexKey(i) = k]>>)]
    [] v.kind = "array" ->
         [k \in {IndexKey(i) : i \in 1..Len(v.arr)} |->
            v.arr[CHOOSE i \in 1..Len(v.arr) : IndexKey(i) = k]]
    [] OTHER -> EmptyObject

UpperCase == <<"A", "B", "C", "D", "E", "F", "G", "H", "I", "J", "K", "L", "M",
               "N", "O", "P", "Q", "R", "S", "T", "U", "V", "W", "X", "Y", "Z">>
LowerCase == <<"a", "b", "c", "d", "e", "f", "g", "h", "i", "j", "k", "l", "m",
               "n", "o", "p", "q", "r", "s", "t", "u", "v", "w", "x", "y", "z">>

\* String.prototype.toLowerCase on one character.
toLowerCase(c) ==
  IF \E i \in 1..Len(UpperCase) : UpperCase[i] = c
  THEN LowerCase[CHOOSE i \in 1..Len(UpperCase) : UpperCase[i] = c]
  ELSE c

\* s.charAt(0): the empty string when s is empty.
charAt0(s) == IF Len(s) = 0 THEN <<>> ELSE <<s[1]>>

\* s.slice(1)
slice1(s) == IF Len(s) = 0 THEN <<>> ELSE Tail(s)

PropsSuffix == <<"P", "r", "o", "p", "s">>

(***************************************************************************)
(* React components.                                                       *)
(***************************************************************************)
Fragment == [kind |-> "Fragment"]
Undefined == [kind |-> "undefined"]
TypeError == [kind |-> "TypeError"]
ElementType(name) == [kind |-> "Component", name |-> name]

\* The destructuring default of a key: '' when the caller passes none.
DefaultKey(keys, field) == IF field \in DOMAIN keys THEN keys[field] ELSE <<>>

\* The destructuring default of a slot: Fragment when the caller passes none
\* or passes undefined.
DefaultSlot(comps, field) ==
  IF field \in DOMAIN comps
  THEN (IF comps[field] = Undefined THEN Fragment ELSE comps[field])
  ELSE Fragment

(***************************************************************************)
(* getFragmentProps, getMappedProps                                        *)
(***************************************************************************)
\* Variant: the Fragment test is left out.
getFragmentPropsUnchecked(component, p) == p

getFragmentProps(component, p) == IF component = Fragment THEN EmptyObject ELSE p

\* Variant: the first character keeps its case.
nameWithPropsSameCase(componentName) == componentName \o PropsSuffix

\* Variant: the whole type name is put in lower case.
nameWithPropsLowerAll(componentName) ==
  [i \in 1..Len(componentName) |-> toLowerCase(componentName[i])] \o PropsSuffix

nameWithProps(componentName) ==
  <<>> \o [i \in 1..Len(charAt0(componentName)) |-> toLowerCase(charAt0(componentName)[i])]
       \o slice1(componentName) \o PropsSuffix

\* Variant: the two spreads are exchanged, type-level props overwrite id-level ones.
getMappedPropsTypeLast(componentID, componentName, p) ==
  IF componentID # <<>> \/ componentName # <<>>
  THEN Assign(Assign([k \in {<<"i", "d">>} |-> JSString(componentID)],
                     OwnProperties(Lookup(p, componentID))),
              OwnProperties(Lookup(p, nameWithProps(componentName))))
  ELSE p

\* Variant: the whole props object is spread under the mapped props.
getMappedPropsWithRest(componentID, componentName, p) ==
  IF componentID # <<>> \/ componentName # <<>>
  THEN Assign(Assign(Assign(p, [k \in {<<"i", "d">>} |-> JSString(componentID)]),
                     OwnProperties(Lookup(p, nameWithProps(componentName)))),
              OwnProperties(Lookup(p, componentID)))
  ELSE p

getMappedProps(componentID, componentName, p) ==
  IF componentID # <<>> \/ componentName # <<>>
  THEN Assign(Assign([k \in {<<"i", "d">>} |-> JSString(componentID)],
                     OwnProperties(Lookup(p, nameWithProps(componentName)))),
              OwnProperties(Lookup(p, componentID)))
  ELSE p

(***************************************************************************)
(* getShape: the closure it returns is the record of what it captures.     *)
(***************************************************************************)
\* Variant: a shape whose Container is given but undefined shows no content.
getShapeUndefinedContainerEmpty(keys, comps) ==
  [kind |-> "Shape",
   containerID |-> DefaultKey(keys, "containerID"),
   componentID |-> DefaultKey(keys, "componentID"),
   containerName |-> DefaultKey(keys, "containerName"),
   componentName |-> DefaultKey(keys, "componentName"),
   Container |-> DefaultSlot(comps, "Container"),
   Content |-> IF "Container" \in DOMAIN comps /\ comps["Container"] = Undefined
               THEN Fragment
               ELSE DefaultSlot(comps, "Content"),
   Component |-> DefaultSlot(comps, "Component")]

getShape(keys, comps) ==
  [kind |-> "Shape",
   containerID |-> DefaultKey(keys, "containerID"),
   componentID |-> DefaultKey(keys, "componentID"),
   containerName |-> DefaultKey(keys, "containerName"),
   componentName |-> DefaultKey(keys, "componentName"),
   Container |-> DefaultSlot(comps, "Container"),
   Content |-> DefaultSlot(comps, "Content"),
   Component |-> DefaultSlot(comps, "Component")]

\* Variant: the content is given the props mapped for the component.
otherPropsMapped(shape, p) ==
  getFragmentProps(shape.Content,
                   getMappedProps(shape.componentID, shape.componentName, p))

otherProps(shape, p) == getFragmentProps(shape.Content, p)

componentProps(shape, p) ==
  getFragmentProps(shape.Component,
                   getMappedProps(shape.componentID, shape.componentName, p))

\* Variant: the container is mapped with the keys of the component.
containerPropsByComponent(shape, p) ==
  getFragmentProps(shape.Container,
                   getMappedProps(shape.componentID, shape.componentName, p))

containerProps(shape, p) ==
  getFragmentProps(shape.Container,
                   getMappedProps(shape.containerID, shape.containerName, p))

\* Variant: <Component/> is written before <Content/>.
ContainerChildrenSwapped(content, component) == <<component, content>>

\* The children of <Container>: <Content/> then <Component/>.
ContainerChildren(content, component) == <<content, component>>

\* What an element shows of its type: a shape is shown by what it renders.
TypeOf(type) == IF type.kind = "Shape" THEN [kind |-> "Shape"] ELSE type

RECURSIVE Render(_, _)
\* The element <type {...p}>children</type> at a slot of a shape, rendered: a
\* shape is called with p, a Fragment or a component keeps its children.
CreateElement(slot, id, name, type, p, children) ==
  [slot |-> slot, id |-> id, name |-> name, type |-> TypeOf(type), props |-> p,
   children |-> IF type.kind = "Shape" THEN <<Render(type, p)>> ELSE children]

\* The function component returned by getShape, called with p.
Render(shape, p) ==
  CreateElement("Container", shape.containerID, shape.containerName,
                shape.Container, containerProps(shape, p),
                ContainerChildren(
                  CreateElement("Content", <<>>, <<>>, shape.Content,
                                otherProps(shape, p), <<>>),
                  CreateElement("Component", shape.componentID, shape.componentName,
                                shape.Component, componentProps(shape, p), <<>>)))

(***************************************************************************)
(* getRecursiveHOC                                                         *)
(***************************************************************************)
\* No node is taken for a container.
isContainerNever(next) == FALSE

isContainer(next) == "children" \in DOMAIN next

NextComponent(registry, next) ==
  IF next.component \in DOMAIN registry THEN registry[next.component] ELSE Undefined

RECURSIVE getRecursiveHOC(_, _, _)
\* Reading next.children of the undefined first element of an empty structure
\* throws a TypeError, which nothing catches.
getRecursiveHOC(struct, registry, Result) ==
  IF Len(struct) = 0 THEN TypeError
  ELSE
    LET next == Head(struct)
        other == Tail(struct)
        Content == IF isContainer(next)
                   THEN getRecursiveHOC(next.children, registry, Fragment)
                   ELSE Fragment
        Component == IF isContainer(next)
                     THEN getShape([containerID |-> next.id,
                                    containerName |-> next.component],
                                   [Container |-> NextComponent(registry, next),
                                    Content |-> Content])
                     ELSE NextComponent(registry, next)
        NextResult == getShape(IF isContainer(next)
                               THEN [none |-> <<>>]
                               ELSE [componentID |-> next.id,
                                     componentName |-> next.component],
                               [Content |-> Result, Component |-> Component])
    IN IF Content = TypeError THEN TypeError
       ELSE IF Len(other) # 0
            THEN getRecursiveHOC(other, registry, NextResult)
            ELSE NextResult

(***************************************************************************)
(* Inputs: structures, maps of components, props.                          *)
(***************************************************************************)
X == <<"x">>
Y == <<"y">>
T == <<"T">>
U == <<"U">>
ID == <<"i", "d">>

\* The type-level key of each type name in use, written out.
TypeLevelKey(name) ==
  CASE name = T -> <<"t", "P", "r", "o", "p", "s">>
    [] name = U -> <<"u", "P", "r", "o", "p", "s">>
    [] name = <<>> -> <<"P", "r", "o", "p", "s">>
    [] name = <<"S", "w">> -> <<"s", "w", "P", "r", "o", "p", "s">>
    [] name = <<"s", "w">> -> <<"s", "w", "P", "r", "o", "p", "s">>
    [] name = <<"S", "W">> -> <<"s", "W", "P", "r", "o", "p", "s">>
    [] name = <<"s", "W">> -> <<"s", "W", "P", "r", "o", "p", "s">>
    [] name = <<"S", "x">> -> <<"s", "x", "P", "r", "o", "p", "s">>

Label(id, name) == [id |-> id, component |-> name]

Labels == {Label(X, T), Label(Y, T), Label(X, U), Label(<<>>, <<>>)}

RECURSIVE NodesOfSize(_), StructuresOfSize(_)
\* The nodes made of n nodes in all: a leaf has no children field, a container
\* has one, which may be empty.
NodesOfSize(n) ==
  (IF n = 1 THEN Labels ELSE {}) \cup
  {[id |-> l.id, component |-> l.component, children |-> c] :
     l \in Labels, c \in StructuresOfSize(n - 1)}

StructuresOfSize(n) ==
  IF n = 0 THEN {<<>>}
  ELSE UNION {{<<t>> \o f : t \in NodesOfSize(k), f \in StructuresOfSize(n - k)} :
                k \in 1..n}

Structures == UNION {StructuresOfSize(n) : n \in 0..MaxNodes}

Row == ElementType("Row")
Switch == ElementType("Switch")
TextInput == ElementType("TextInput")

\* Every type registered; or U bound to Fragment and '' not registered.
AllRegistered ==
  [c \in {T, U, <<>>} |-> CASE c = T -> Row [] c = U -> Switch [] OTHER -> TextInput]
SomeNull == [c \in {T, U} |-> IF c = T THEN Row ELSE Fragment]

ComponentsMaps == {AllRegistered, SomeNull}

One == JSNumber(<<"1">>)
Two == JSNumber(<<"2">>)

Obj1 == JSObject([k \in {<<"a">>, <<"0">>} |-> One])
Obj2 == JSObject([k \in {<<"a">>, ID} |-> Two])

PropsValues == {Obj1, Obj2, JSString(<<"p">>)}

\* The props the structures are rendered with: entries at the id key and at
\* the type-level key of one node.
PropsKeySets == {{l.id, TypeLevelKey(l.component)} : l \in Labels}

PropsBags == UNION {[ks -> PropsValues] : ks \in UNION {SUBSET s : s \in PropsKeySets}}

\* Routing is exercised on one leaf, alone or inside one container, with
\* props that hold any value at the node's id key and type-level key.
RouteLabels == {Label(i, n) : i \in {<<>>, X}, n \in {<<>>, T}}

RouteStructures ==
  {<<l>> : l \in RouteLabels} \cup
  {<<[id |-> l.id, component |-> l.component, children |-> <<m>>]>> :
     l, m \in RouteLabels}

PropKeys == {ID, <<"a">>, <<"0">>}

Objects ==
  {JSObject(o) :
     o \in UNION {[ks -> {One, Two}] :
                    ks \in {s \in SUBSET PropKeys : Cardinality(s) <= MaxEntries}}}

NotObjects ==
  {JSString(<<"p">>), JSString(<<>>), JSArray(<<Two>>), JSNumber(<<"7">>),
   JSBoolean(<<"true">>), JSNull}

RouteValues == Objects \cup NotObjects

RouteKeys == {<<>>, X, TypeLevelKey(<<>>), TypeLevelKey(T)}

RouteBags ==
  UNION {[ks -> RouteValues] :
           ks \in UNION {SUBSET {l.id, TypeLevelKey(l.component)} : l \in RouteLabels}}

(***************************************************************************)
(* The program: a module composes once; React renders the composed         *)
(* component with props, any number of times.                              *)
(***************************************************************************)
Init ==
  /\ structure \in Structures
  /\ components \in ComponentsMaps
  /\ status = "defined"
  /\ args = <<>>
  /\ HOC = Undefined
  /\ props = EmptyObject
  /\ output = <<>>
  /\ remembered = <<>>

RouteInit ==
  /\ structure \in RouteStructures
  /\ components = AllRegistered
  /\ status = "defined"
  /\ args = <<>>
  /\ HOC = Undefined
  /\ props = EmptyObject
  /\ output = <<>>
  /\ remembered = <<>>

\* A composition that takes the first node off the structure it was passed
\* (Array.prototype.shift in place of the rest pattern).
ComposeShifting ==
  /\ status = "defined"
  /\ args' = [structure |-> structure, components |-> components]
  /\ LET result == getRecursiveHOC(structure, components, Fragment)
     IN /\ HOC' = result
        /\ status' = IF result = TypeError THEN "thrown" ELSE "composed"
  /\ structure' = IF structure = <<>> THEN structure ELSE Tail(structure)
  /\ UNCHANGED <<components, props, output, remembered>>

\* export default (args) => getRecursiveHOC(args): args binds the structure
\* and the components as they are at the call.
Compose ==
  /\ status = "defined"
  /\ args' = [structure |-> structure, components |-> components]
  /\ LET result == getRecursiveHOC(structure, components, Fragment)
     IN /\ HOC' = result
        /\ status' = IF result = TypeError THEN "thrown" ELSE "composed"
  /\ UNCHANGED <<structure, components, props, output, remembered>>

\* <Form {...p} />: React calls the composed component with the props p.
Invoke(bags) ==
  /\ status = "composed"
  /\ \E p \in bags :
       /\ props' = p
       /\ output' = <<Render(HOC, p)>>
  /\ status' = "rendered"
  /\ UNCHANGED <<structure, components, args, HOC, remembered>>

\* The rendered element is unmounted; the component can be rendered again.
Unmount ==
  /\ status = "rendered"
  /\ status' = "composed"
  /\ props' = EmptyObject
  /\ output' = <<>>
  /\ UNCHANGED <<structure, components, args, HOC, remembered>>

Next == Compose \/ Invoke(PropsBags) \/ Unmount

Spec == Init /\ [][Next]_vars

RouteNext == Compose \/ Invoke(RouteBags) \/ Unmount

RouteSpec == RouteInit /\ [][RouteNext]_vars

(***************************************************************************)
(* What is declared and what is rendered.                                  *)
(***************************************************************************)
RECURSIVE HasEmptyChildren(_)
\* Some container of the structure, at any depth, has children = [].
HasEmptyChildren(struct) ==
  \E i \in 1..Len(struct) :
    /\ isContainer(struct[i])
    /\ \/ struct[i].children = <<>>
       \/ HasEmptyChildren(struct[i].children)

RECURSIVE Preorder(_)
\* The nodes of a structure in declaration order, parents before children.
Preorder(struct) ==
  IF struct = <<>> THEN <<>>
  ELSE LET next == Head(struct)
       IN <<Label(next.id, next.component)>>
            \o (IF isContainer(next) THEN Preorder(next.children) ELSE <<>>)
            \o Preorder(Tail(struct))

(***************************************************************************)
(* C1: composing a container whose children sequence is empty, and         *)
(* invoking the result, never raises: the container is rendered wrapping   *)
(* nothing.  Stated here as: a structure that holds an empty container     *)
(* never makes the composition throw.                                      *)
(***************************************************************************)
C1_EmptyContainerComposes == HasEmptyChildren(structure) => status # "thrown"

(***************************************************************************)
(* C2: composing an empty sibling list does not raise and returns the      *)
(* accumulator unchanged, the null renderable when none is given.          *)
(***************************************************************************)
C2_EmptyStructureReturnsAccumulator ==
  structure = <<>> =>
    /\ status # "thrown"
    /\ status = "composed" => HOC = Fragment

(***************************************************************************)
(* Reading the rendered output.                                            *)
(***************************************************************************)
RECURSIVE ElementsOf(_)
\* Every element of a rendered tree.
ElementsOf(e) ==
  {e} \cup UNION {ElementsOf(e.children[i]) : i \in 1..Len(e.children)}

Elements == IF status = "rendered" THEN ElementsOf(output[1]) ELSE {}

RECURSIVE NodesIn(_, _)
RECURSIVE NodesInAll(_, _)
\* The elements rendered for the nodes of the structure, in the order of the
\* output, parents before children.  The element at a component slot that is
\* not a shape is a leaf.  The shape at a component slot is the shape of a
\* container node: its container is the element of that node (own), its
\* content holds the children and its component slot is left unbound.  The
\* other containers and the contents are the wrappers of the fold.
NodesIn(e, own) ==
  IF e.type.kind = "Shape" THEN NodesIn(e.children[1], e.slot = "Component")
  ELSE IF e.slot = "Container"
       THEN (IF own
             THEN <<[id |-> e.id, name |-> e.name, type |-> e.type, props |-> e.props]>>
             ELSE <<>>) \o NodesInAll(e.children, own)
       ELSE IF e.slot = "Component"
            THEN <<[id |-> e.id, name |-> e.name, type |-> e.type, props |-> e.props]>>
            ELSE <<>>

NodesInAll(es, own) ==
  IF es = <<>> THEN <<>>
  ELSE (IF own /\ Head(es).slot = "Component" THEN <<>> ELSE NodesIn(Head(es), FALSE))
         \o NodesInAll(Tail(es), own)

Nodes == IF status = "rendered" THEN NodesIn(output[1], FALSE) ELSE <<>>

\* The nodes whose registry entry is a component, not the null renderable.
Registered == {i \in 1..Len(Nodes) : Nodes[i].type.kind = "Component"}

\* Routing is active for a node: its id or its type name is not empty.
Routed(n) == n.id # <<>> \/ n.name # <<>>

IsMapping(v) == v.kind = "object"
Present(v) == v.kind # "undefined"
Mapping(v) == IF IsMapping(v) THEN v.obj ELSE EmptyObject

\* The entries of the props at a node's type-level key and at its id key.
TypeLevel(n, p) == Lookup(p, TypeLevelKey(n.name))
IdLevel(n, p) == Lookup(p, n.id)

\* {id: X}, then the type-level mapping, then the id-level mapping.
Precedence(n, p) ==
  [k \in {ID} \cup DOMAIN Mapping(TypeLevel(n, p)) \cup DOMAIN Mapping(IdLevel(n, p)) |->
     IF k \in DOMAIN Mapping(IdLevel(n, p)) THEN Mapping(IdLevel(n, p))[k]
     ELSE IF k \in DOMAIN Mapping(TypeLevel(n, p)) THEN Mapping(TypeLevel(n, p))[k]
     ELSE JSString(n.id)]

WellFormed(n, p) ==
  /\ IsMapping(TypeLevel(n, p)) \/ ~Present(TypeLevel(n, p))
  /\ IsMapping(IdLevel(n, p)) \/ ~Present(IdLevel(n, p))

(***************************************************************************)
(* C3: precedence law.  The props routed to a node with id X and type T    *)
(* are {id: X}, overwritten by the mapping at props[lowerFirst(T)+'Props'],*)
(* overwritten by the mapping at props[X].                                 *)
(* As claimed, for every node:                                             *)
(***************************************************************************)
C3_PrecedenceEveryNode ==
  \A i \in Registered :
    WellFormed(Nodes[i], props) => Nodes[i].props = Precedence(Nodes[i], props)

\* C3 as amended: the law holds for every node whose id or type name is not
\* the empty string (a node with both empty receives the props unchanged).
C3_Precedence ==
  LET N == Nodes
  IN \A i \in 1..Len(N) :
       /\ N[i].type.kind = "Component"
       /\ Routed(N[i])
       /\ WellFormed(N[i], props)
       => N[i].props = Precedence(N[i], props)

\* A node receives, from two mappings that disagree on a key, the id-level
\* value of that key.
C3_Witness ==
  \E i \in Registered :
    /\ Routed(Nodes[i])
    /\ IsMapping(TypeLevel(Nodes[i], props)) /\ IsMapping(IdLevel(Nodes[i], props))
    /\ \E k \in DOMAIN TypeLevel(Nodes[i], props).obj \cap DOMAIN IdLevel(Nodes[i], props).obj :
         /\ TypeLevel(Nodes[i], props).obj[k] # IdLevel(Nodes[i], props).obj[k]
         /\ Nodes[i].props[k] = IdLevel(Nodes[i], props).obj[k]

(***************************************************************************)
(* C4: id-sharing broadcast.  As claimed: two nodes that share an id X     *)
(* receive identical routed props from every props object that holds X.    *)
(***************************************************************************)
C4_SameIdSameProps ==
  \A i, j \in Registered :
    Nodes[i].id = Nodes[j].id /\ Nodes[i].id \in DOMAIN props
      => Nodes[i].props = Nodes[j].props

\* C4 as amended: two nodes that share an id X and a type name receive
\* identical routed props; two nodes that share only the id X both receive,
\* when routing is active for them, every entry of the mapping at props[X].
C4_SameIdSameType ==
  LET N == Nodes
      R == {i \in 1..Len(N) : N[i].type.kind = "Component"}
  IN /\ \A i, j \in R :
          N[i].id = N[j].id /\ N[i].name = N[j].name => N[i].props = N[j].props
     /\ \A i \in R :
          Routed(N[i]) =>
            \A k \in DOMAIN Mapping(IdLevel(N[i], props)) :
              /\ k \in DOMAIN N[i].props
              /\ N[i].props[k] = Mapping(IdLevel(N[i], props))[k]

\* A leaf and a container share an id and a type, and the props hold a
\* mapping at that id.
C4_Witness ==
  \E i, j \in Registered :
    /\ i # j
    /\ Nodes[i].id = Nodes[j].id /\ Nodes[i].name = Nodes[j].name
    /\ Routed(Nodes[i])
    /\ IsMapping(IdLevel(Nodes[i], props))
    /\ \E e \in Elements : e.slot = "Container" /\ e.id = Nodes[i].id /\ e.type = Nodes[i].type
    /\ \E e \in Elements : e.slot = "Component" /\ e.id = Nodes[i].id /\ e.type = Nodes[i].type

(***************************************************************************)
(* C5: a value at a node's type-level key or id key that is present but is *)
(* not a mapping (string, array, number, boolean, null) is treated as      *)
(* absent: it contributes no key to the routed props.                      *)
(***************************************************************************)
C5_MalformedSkipped ==
  \A i \in Registered :
    Routed(Nodes[i]) /\ ~WellFormed(Nodes[i], props)
      => Nodes[i].props = Precedence(Nodes[i], props)

(***************************************************************************)
(* C6: order preservation.  The nodes are rendered in declaration order at *)
(* every depth: the subtree of a sibling comes entirely before the subtree *)
(* of every later sibling, for every props object.                         *)
(***************************************************************************)
C6_OrderPreserved ==
  status = "rendered" =>
    LET N == Nodes
    IN [i \in 1..Len(N) |-> Label(N[i].id, N[i].name)] = Preorder(structure)

\* Three nodes, two of them different siblings, one nested, are rendered.
C6_Witness ==
  /\ status = "rendered"
  /\ Len(Preorder(structure)) = 3
  /\ Len(structure) = 2
  /\ Label(structure[1].id, structure[1].component)
       # Label(structure[2].id, structure[2].component)
  /\ props # EmptyObject

(***************************************************************************)
(* C7: pass-through.  Every content slot bound to a non-null renderable,   *)
(* and every shape, at every depth, receives the props given to the root   *)
(* unchanged.                                                              *)
(***************************************************************************)
C7_ContentPassThrough ==
  \A e \in Elements :
    (e.slot = "Content" /\ e.type # Fragment) \/ e.type.kind = "Shape"
      => e.props = props

\* A content slot two shapes deep, under a container node, receives props
\* that hold an entry.
C7_Witness ==
  \E e \in Elements :
    /\ e.type.kind = "Shape" /\ e.slot = "Component"
    /\ \E c \in ElementsOf(e.children[1]) : c.slot = "Content" /\ c.type.kind = "Shape"
    /\ props # EmptyObject

Without(p, key) == [k \in DOMAIN p \ {key} |-> p[k]]
With(p, key, v) == [k \in DOMAIN p \cup {key} |-> IF k = key THEN v ELSE p[k]]

\* The props p with one key removed, added or changed.
Variants(p) ==
  {Without(p, key) : key \in RouteKeys} \cup
  {With(p, key, v) : key \in RouteKeys, v \in {Obj1, JSString(<<"p">>)}}

Agree(p, q, n) ==
  /\ IdLevel(n, p) = IdLevel(n, q)
  /\ TypeLevel(n, p) = TypeLevel(n, q)

\* The nodes rendered by the composed component with other props.
NodesWith(q) == NodesIn(Render(HOC, q), FALSE)

\* C9 as claimed, for every node: props that agree on the two keys of a node
\* route it the same props.
C9_IsolationEveryNode ==
  status = "rendered" =>
    \A q \in Variants(props) : \A i \in Registered :
      Agree(props, q, Nodes[i]) => NodesWith(q)[i].props = Nodes[i].props

\* C9 as amended: for every node whose id or type name is not empty.
C9_Isolation ==
  status = "rendered" =>
    LET N == Nodes
    IN \A q \in Variants(props) :
         LET M == NodesWith(q)
         IN \A i \in 1..Len(N) :
              /\ N[i].type.kind = "Component"
              /\ Routed(N[i])
              /\ Agree(props, q, N[i])
              => M[i].props = N[i].props

\* A node is routed a mapping found at its id, and other props differ from
\* these only at a key that is neither its id nor its type-level key.
C9_Witness ==
  /\ status = "rendered"
  /\ \E q \in Variants(props) : \E i \in Registered :
       /\ q # props
       /\ Routed(Nodes[i]) /\ Agree(props, q, Nodes[i])
       /\ IsMapping(IdLevel(Nodes[i], props))
       /\ IdLevel(Nodes[i], props).obj # EmptyObject
       /\ \E key \in DOMAIN q : Present(Lookup(q, key)) /\ Lookup(q, key) # Lookup(props, key)

(***************************************************************************)
(* C10: a slot bound to the null renderable always receives an empty props *)
(* object, whatever its addressing and whatever the props hold.            *)
(***************************************************************************)
C10_NullReceivesNothing ==
  \A e \in Elements : e.type = Fragment => e.props = EmptyObject

\* A node whose registry entry is the null renderable is rendered with
\* props that hold a mapping at its id and at its type-level key.
C10_Witness ==
  \E e \in Elements :
    /\ e.type = Fragment
    /\ e.name = U
    /\ components[e.name] = Fragment
    /\ IsMapping(Lookup(props, e.id))
    /\ IsMapping(Lookup(props, TypeLevelKey(e.name)))
    /\ Lookup(props, e.id).obj # EmptyObject

(***************************************************************************)
(* C11: a node that names a type the registry does not hold never makes    *)
(* the composition or an invocation raise.                                 *)
(***************************************************************************)
C11_UnknownTypeNeverRaises ==
  (\E i \in 1..Len(Preorder(structure)) :
     Preorder(structure)[i].component \notin DOMAIN components)
    => status # "thrown"

(***************************************************************************)
(* What is visible of the rendered output: the elements bound to a         *)
(* component, each with the visible elements below it.  A Fragment and a   *)
(* shape render their children in place.                                   *)
(***************************************************************************)
RECURSIVE Visible(_)
RECURSIVE VisibleAll(_)
Visible(e) ==
  IF e.type.kind = "Component"
  THEN <<[type |-> e.type, props |-> e.props, children |-> VisibleAll(e.children)]>>
  ELSE VisibleAll(e.children)

VisibleAll(es) == IF es = <<>> THEN <<>> ELSE Visible(Head(es)) \o VisibleAll(Tail(es))

(***************************************************************************)
(* The scenario of C12: a leaf 'a', then a box 'row' that holds two leaves *)
(* 'b'.                                                                    *)
(***************************************************************************)
LeafName == <<"L", "e", "a", "f">>
BoxName == <<"B", "o", "x">>
A == <<"a">>
B == <<"b">>
RowId == <<"r", "o", "w">>
LeafProps == <<"l", "e", "a", "f", "P", "r", "o", "p", "s">>
BoxProps == <<"b", "o", "x", "P", "r", "o", "p", "s">>
V == <<"v">>
Shared == <<"s", "h", "a", "r", "e", "d">>

Leaf == ElementType("Leaf")
Box == ElementType("Box")

ScenarioStructure ==
  << Label(A, LeafName),
     [id |-> RowId, component |-> BoxName,
      children |-> <<Label(B, LeafName), Label(B, LeafName)>>] >>

ScenarioComponents == [c \in {LeafName, BoxName} |-> IF c = LeafName THEN Leaf ELSE Box]

V1 == JSObject([k \in {V} |-> One])
V2 == JSObject([k \in {V} |-> Two])
SharedTrue == JSObject([k \in {Shared} |-> JSBoolean(<<"true">>)])

\* {a: {v: 1}, b: {v: 2}, leafProps: {shared: true}}
ScenarioBag ==
  [k \in {A, B, LeafProps} |-> IF k = A THEN V1 ELSE IF k = B THEN V2 ELSE SharedTrue]

\* The props of the scenario and the props that hold other mappings at its
\* keys, at the id of the box and at the type-level key of the box.
ScenarioBags ==
  UNION {[ks -> {V1, V2, SharedTrue}] : ks \in SUBSET {A, B, RowId, LeafProps, BoxProps}}

ScenarioInit ==
  /\ structure = ScenarioStructure
  /\ components = ScenarioComponents
  /\ status = "defined"
  /\ args = <<>>
  /\ HOC = Undefined
  /\ props = EmptyObject
  /\ output = <<>>
  /\ remembered = <<>>

ScenarioNext == Compose \/ Invoke(ScenarioBags) \/ Unmount

ScenarioSpec == ScenarioInit /\ [][ScenarioNext]_vars

\* {id: 'a', shared: true, v: 1} and {id: 'b', shared: true, v: 2}
LeafA ==
  [type |-> Leaf,
   props |-> [k \in {ID, Shared, V} |->
                IF k = ID THEN JSString(A)
                ELSE IF k = Shared THEN JSBoolean(<<"true">>) ELSE One],
   children |-> <<>>]
LeafB ==
  [type |-> Leaf,
   props |-> [k \in {ID, Shared, V} |->
                IF k = ID THEN JSString(B)
                ELSE IF k = Shared THEN JSBoolean(<<"true">>) ELSE Two],
   children |-> <<>>]

(***************************************************************************)
(* C12: invoked with {a: {v: 1}, b: {v: 2}, leafProps: {shared: true}},    *)
(* the unit composed from the scenario renders, in this order, Leaf with   *)
(* {id: 'a', shared: true, v: 1}, then Box wrapping two Leaf elements that *)
(* each receive {id: 'b', shared: true, v: 2}.                             *)
(***************************************************************************)
C12_EndToEnd ==
  status = "rendered" /\ props = ScenarioBag =>
    LET v == VisibleAll(output)
    IN /\ Len(v) = 2
       /\ v[1] = LeafA
       /\ v[2].type = Box
       /\ v[2].children = <<LeafB, LeafB>>

\* The scenario has been composed and invoked with its props.
C12_Witness ==
  /\ structure = ScenarioStructure /\ components = ScenarioComponents
  /\ status = "rendered" /\ props = ScenarioBag
  /\ Len(output) = 1

(***************************************************************************)
(* The life of one composed component: it is rendered again and again with *)
(* other props, and between two renders the caller may change the          *)
(* structure or the components it composed from.  A render is two steps:   *)
(* React calls the component with the props (Call), the component returns  *)
(* its element (Return).  remembered holds the props and the routed props  *)
(* of one earlier render, and whether a render with other props has        *)
(* happened since.                                                         *)
(***************************************************************************)
LifeLabels == {Label(X, T), Label(Y, U)}

LifeStructures ==
  {<<l>> : l \in LifeLabels} \cup
  {<<l, m>> : l, m \in LifeLabels} \cup
  {<<[id |-> l.id, component |-> l.component, children |-> <<m>>]>> :
     l, m \in LifeLabels}

LifeBags ==
  {EmptyObject,
   [k \in {X} |-> Obj1],
   [k \in {X} |-> Obj2],
   [k \in {TypeLevelKey(T)} |-> Obj1],
   [k \in {X, TypeLevelKey(T)} |-> IF k = X THEN Obj2 ELSE Obj1]}

LifeInit ==
  /\ structure \in LifeStructures
  /\ components \in ComponentsMaps
  /\ status = "defined"
  /\ args = <<>>
  /\ HOC = Undefined
  /\ props = EmptyObject
  /\ output = <<>>
  /\ remembered = <<>>

\* The composed component is called with props; what it rendered before
\* stays mounted until it returns.
Call(bags) ==
  /\ status \in {"composed", "rendered"}
  /\ \E p \in bags : props' = p
  /\ status' = "calling"
  /\ UNCHANGED <<structure, components, args, HOC, output, remembered>>

\* What is remembered after a render that returned out: this render, or
\* still the earlier one.
Remember(out) ==
  {[props |-> props, nodes |-> NodesIn(out[1], FALSE), between |-> FALSE],
   IF remembered = <<>> THEN remembered
   ELSE [remembered EXCEPT !.between = @ \/ props # remembered.props]}

\* The render with the stale element of the render before, when there is one.
ReturnStale ==
  /\ status = "calling"
  /\ output' = IF output = <<>> THEN <<Render(HOC, props)>> ELSE output
  /\ status' = "rendered"
  /\ remembered' \in Remember(output')
  /\ UNCHANGED <<structure, components, args, HOC, props>>

\* The render of a component that composes when it is called, from the
\* structure and the components as they are then.
ReturnRecomposing ==
  /\ status = "calling"
  /\ output' = <<Render(getRecursiveHOC(structure, components, Fragment), props)>>
  /\ status' = "rendered"
  /\ remembered' \in Remember(output')
  /\ UNCHANGED <<structure, components, args, HOC, props>>

\* The call returns the element.
Return ==
  /\ status = "calling"
  /\ output' = <<Render(HOC, props)>>
  /\ status' = "rendered"
  /\ remembered' \in Remember(output')
  /\ UNCHANGED <<structure, components, args, HOC, props>>

\* The caller changes the structure it passed: another id, type name,
\* order or nesting.
MutateStructure ==
  /\ status = "composed"
  /\ structure' \in LifeStructures \ {structure}
  /\ UNCHANGED <<components, status, args, HOC, props, output, remembered>>

\* The caller binds a type name of the components to another value or
\* removes it.
MutateComponents ==
  /\ status = "composed"
  /\ components' \in ComponentsMaps \ {components}
  /\ UNCHANGED <<structure, status, args, HOC, props, output, remembered>>

LifeNext ==
  Compose \/ Call(LifeBags) \/ Return \/ Unmount \/ MutateStructure \/ MutateComponents

LifeSpec == LifeInit /\ [][LifeNext]_vars

RECURSIVE Hierarchy(_)
RECURSIVE HierarchyAll(_)
\* The elements bound to a component, each with its id, type name, type and
\* the hierarchy inside it.
Hierarchy(e) ==
  IF e.type.kind = "Component"
  THEN <<[id |-> e.id, component |-> e.name, type |-> e.type,
          children |-> HierarchyAll(e.children)]>>
  ELSE HierarchyAll(e.children)

HierarchyAll(es) ==
  IF es = <<>> THEN <<>> ELSE Hierarchy(Head(es)) \o HierarchyAll(Tail(es))

RECURSIVE Declared(_, _)
\* One element for each node, of the type the registry binds its type name
\* to, holding the elements of its children.
Declared(struct, registry) ==
  [i \in 1..Len(struct) |->
     [id |-> struct[i].id, component |-> struct[i].component,
      type |-> registry[struct[i].component],
      children |-> IF "children" \in DOMAIN struct[i]
                   THEN Declared(struct[i].children, registry)
                   ELSE <<>>]]

\* Every type name of the structure is bound to a component.
AllBound(struct, registry) ==
  \A i \in 1..Len(Preorder(struct)) :
    /\ Preorder(struct)[i].component \in DOMAIN registry
    /\ registry[Preorder(struct)[i].component].kind = "Component"

(***************************************************************************)
(* C15: structural fidelity.  When every type of the structure is bound to *)
(* a component, the output holds one element for each declared node, in    *)
(* its declared parent and in declared order, whatever the props.          *)
(***************************************************************************)
C15_StructuralFidelity ==
  status = "rendered" /\ AllBound(structure, components) =>
    HierarchyAll(output) = Declared(structure, components)

\* A container that declares two children has been rendered with props that
\* hold an entry.
C15_Witness ==
  /\ status = "rendered" /\ AllBound(structure, components)
  /\ Len(structure) = 1 /\ "children" \in DOMAIN structure[1]
  /\ Len(structure[1].children) = 2
  /\ props # EmptyObject
  /\ Len(HierarchyAll(output)[1].children) = 2

(***************************************************************************)
(* C16: when routing is active for a node (its id or its type name is not  *)
(* empty) the routed props hold the key id.  Its value is the id the       *)
(* id-level mapping holds, else the id the type-level mapping holds, else  *)
(* the node's id.                                                          *)
(***************************************************************************)
C16_IdInjected ==
  LET N == Nodes
  IN \A i \in 1..Len(N) :
       N[i].type.kind = "Component" /\ Routed(N[i]) =>
         /\ ID \in DOMAIN N[i].props
         /\ N[i].props[ID] =
              IF IsMapping(IdLevel(N[i], props)) /\ ID \in DOMAIN IdLevel(N[i], props).obj
              THEN IdLevel(N[i], props).obj[ID]
              ELSE IF IsMapping(TypeLevel(N[i], props))
                      /\ ID \in DOMAIN TypeLevel(N[i], props).obj
                   THEN TypeLevel(N[i], props).obj[ID]
                   ELSE JSString(N[i].id)

\* A node whose two mappings hold different ids receives the id of its
\* id-level mapping, which is not the node's id.
C16_Witness ==
  \E i \in Registered :
    /\ Routed(Nodes[i])
    /\ IsMapping(IdLevel(Nodes[i], props)) /\ IsMapping(TypeLevel(Nodes[i], props))
    /\ ID \in DOMAIN IdLevel(Nodes[i], props).obj
    /\ ID \in DOMAIN TypeLevel(Nodes[i], props).obj
    /\ IdLevel(Nodes[i], props).obj[ID] # TypeLevel(Nodes[i], props).obj[ID]
    /\ Nodes[i].props[ID] = IdLevel(Nodes[i], props).obj[ID]
    /\ Nodes[i].props[ID] # JSString(Nodes[i].id)

(***************************************************************************)
(* C17: composing leaves the structure and the components as they were     *)
(* passed, and a render leaves the props it was given, with the mappings   *)
(* they hold, as they were passed.                                         *)
(***************************************************************************)
C17_InputsUnchanged ==
  [][/\ status = "defined" =>
          structure' = structure /\ components' = components
     /\ status = "calling" =>
          props' = props /\ structure' = structure /\ components' = components]_vars

\* A structure with a container has been composed and rendered with props
\* that hold two mappings; structure, components and props are what was
\* passed.
C17_Witness ==
  /\ status = "rendered"
  /\ args = [structure |-> structure, components |-> components]
  /\ \E i \in 1..Len(structure) : "children" \in DOMAIN structure[i]
  /\ Cardinality(DOMAIN props) = 2
  /\ \A k \in DOMAIN props : IsMapping(props[k])

(***************************************************************************)
(* C18: the composed component is fixed at composition.  Whatever the      *)
(* caller changes afterwards in the structure or the components, a render  *)
(* gives the nodes, in the order and nesting, with the registry entries    *)
(* and the addressing keys, of the structure and the components that were  *)
(* passed to the composition.                                              *)
(***************************************************************************)
C18_FixedAtComposition ==
  status = "rendered" =>
    LET N == Nodes
    IN /\ [i \in 1..Len(N) |-> Label(N[i].id, N[i].name)] = Preorder(args.structure)
       /\ \A i \in 1..Len(N) :
            /\ N[i].type = IF N[i].name \in DOMAIN args.components
                           THEN args.components[N[i].name]
                           ELSE Fragment
            /\ N[i].type.kind = "Component" => N[i].props = Precedence(N[i], props)
       /\ AllBound(args.structure, args.components) =>
            HierarchyAll(output) = Declared(args.structure, args.components)

\* A render after the caller changed both the structure, to other nodes, and
\* the components; a node receives the mapping at the id it had at
\* composition.
C18_Witness ==
  /\ status = "rendered"
  /\ Preorder(structure) # Preorder(args.structure)
  /\ Len(structure) # Len(args.structure)
  /\ components # args.components
  /\ \E i \in Registered : IsMapping(IdLevel(Nodes[i], props))

RECURSIVE Unwrapped(_, _)
\* The hierarchy a structure declares once every node whose type name is not
\* bound to a component is taken away and its children, if it has any, are
\* put at its place.
Unwrapped(struct, registry) ==
  IF struct = <<>> THEN <<>>
  ELSE LET next == Head(struct)
           below == IF "children" \in DOMAIN next
                    THEN Unwrapped(next.children, registry)
                    ELSE <<>>
       IN (IF /\ next.component \in DOMAIN registry
              /\ registry[next.component].kind = "Component"
           THEN <<[id |-> next.id, component |-> next.component,
                   type |-> registry[next.component], children |-> below]>>
           ELSE below)
            \o Unwrapped(Tail(struct), registry)

\* The nodes the structure renders when every type name is registered.
NodesAllRegistered ==
  NodesIn(Render(getRecursiveHOC(structure, AllRegistered, Fragment), props), FALSE)

(***************************************************************************)
(* C19: the children of a container whose type name is not in the registry *)
(* are rendered unwrapped at the place of the container, in declared       *)
(* order, and receive the props they receive under a registered container. *)
(***************************************************************************)
C19_UnknownContainerUnwrapped ==
  status = "rendered" =>
    LET N == Nodes
        R == NodesAllRegistered
    IN /\ HierarchyAll(output) = Unwrapped(structure, components)
       /\ Len(N) = Len(R)
       /\ \A i \in 1..Len(N) : N[i].type.kind = "Component" => N[i].props = R[i].props

\* A container of a type that is not in the registry, followed by a sibling,
\* holds one child, which is rendered with a mapping of the props beside that
\* sibling.
C19_Witness ==
  /\ status = "rendered"
  /\ Len(structure) = 2
  /\ "children" \in DOMAIN structure[1]
  /\ structure[1].component \notin DOMAIN components
  /\ Len(structure[1].children) = 1
  /\ Len(HierarchyAll(output)) = 2
  /\ Nodes[2].type.kind = "Component"
  /\ IsMapping(IdLevel(Nodes[2], props))
  /\ <<"a">> \in DOMAIN Nodes[2].props

(***************************************************************************)
(* Type names that differ in the case of the first character, or in        *)
(* another character: two leaves with one id, of any two of these types,   *)
(* rendered with props that hold mappings at type-level keys.              *)
(***************************************************************************)
CaseNames == {<<"S", "w">>, <<"s", "w">>, <<"S", "W">>, <<"s", "W">>, <<"S", "x">>}

CaseStructures == {<<Label(X, a), Label(X, b)>> : a, b \in CaseNames}

CaseComponents == [c \in CaseNames |-> IF c[1] = "S" THEN Switch ELSE TextInput]

\* The keys the type names are mapped to, and the key 'SwProps'.
CaseKeys ==
  {TypeLevelKey(c) : c \in CaseNames} \cup {<<"S", "w", "P", "r", "o", "p", "s">>}

CaseBags == UNION {[ks -> {Obj1, Obj2}] : ks \in SUBSET CaseKeys}

CaseInit ==
  /\ structure \in CaseStructures
  /\ components = CaseComponents
  /\ status = "defined"
  /\ args = <<>>
  /\ HOC = Undefined
  /\ props = EmptyObject
  /\ output = <<>>
  /\ remembered = <<>>

CaseNext == Compose \/ Invoke(CaseBags) \/ Unmount

CaseSpec == CaseInit /\ [][CaseNext]_vars

\* Two type names are equal but for the case of their first character.
SameButFirstCase(a, b) == Tail(a) = Tail(b) /\ {a[1], b[1]} \subseteq {"S", "s"}

(***************************************************************************)
(* C20: the type-level key is the type name with its first character, and  *)
(* only that one, in lower case, then 'Props'.  Two nodes whose type names *)
(* differ only in the case of the first character receive the same         *)
(* type-level defaults from every props object; of two nodes whose type    *)
(* names differ in another character, one receives nothing from the        *)
(* mapping that the other is addressed by.                                 *)
(***************************************************************************)
C20_LowerFirstOnly ==
  status = "rendered" =>
    LET N == Nodes
    IN /\ \A i \in 1..Len(N) : N[i].props = Precedence(N[i], props)
       /\ \A i, j \in 1..Len(N) :
            SameButFirstCase(N[i].name, N[j].name) => N[i].props = N[j].props
       /\ \A i, j \in 1..Len(N) :
            /\ ~SameButFirstCase(N[i].name, N[j].name)
            /\ Cardinality(DOMAIN props) = 1
            /\ <<"a">> \in DOMAIN N[i].props
            => DOMAIN N[j].props = {ID}

\* A leaf of type 'Sw' and a leaf of type 'sw' have both received the
\* entries of the mapping at 'swProps', from props that hold another mapping
\* at 'sWProps'.
C20_Witness ==
  /\ status = "rendered"
  /\ Len(Nodes) = 2
  /\ Nodes[1].name = <<"S", "w">> /\ Nodes[2].name = <<"s", "w">>
  /\ DOMAIN props = {<<"s", "w", "P", "r", "o", "p", "s">>,
                     <<"s", "W", "P", "r", "o", "p", "s">>}
  /\ props[<<"s", "w", "P", "r", "o", "p", "s">>] # props[<<"s", "W", "P", "r", "o", "p", "s">>]
  /\ \A i \in 1..2 :
       \A k \in DOMAIN props[<<"s", "w", "P", "r", "o", "p", "s">>].obj :
         Nodes[i].props[k] = props[<<"s", "w", "P", "r", "o", "p", "s">>].obj[k]

====
